---- MODULE Spec2Model ----
(***************************************************************************)
(* Transcribe_srt: a directory of videos is turned into cleaned SRT files. *)
(*                                                                         *)
(* Five parts of the program are modelled over one set of variables:       *)
(*   - the pipeline: main() -> process_video() -> transcribe_audio() ->    *)
(*     transcribe_single_audio() (asyncio tasks bounded by a semaphore),   *)
(*     with save_srt_file / fix_first_segment_start_time acting on the     *)
(*     output path of each task (specification Spec, FairSpec);            *)
(*   - the phrase sanitizer sanitize_srt_file acting on the blocks of one  *)
(*     SRT file (specification SanSpec);                                   *)
(*   - the timestamp functions of utils.py applied to one time             *)
(*     (specification CodecSpec);                                          *)
(*   - the post-processing of one service response, convert_to_srt ->      *)
(*     save_srt_file -> fix_first_segment_start_time, on the characters of *)
(*     the output file (specification SrtSpec);                            *)
(*   - cleanup_output_dir acting on the entries of one video output        *)
(*     directory (specification DirSpec).                                  *)
(* Times are whole milliseconds and arithmetic on them is exact: the       *)
(* rounding of binary floating point is not modelled.                      *)
(***************************************************************************)
EXTENDS Integers, Sequences, FiniteSets, TLC

\* ------------------------------------------------------------------ bounds
\* Largest batch handed to transcribe_audio (len(audio_paths)).
MaxTasks == 3
\* Number of video files os.walk yields to main's loop.
NumVideos == 2
\* The cap is configurable in principle: the model runs it from the code's
\* value up to MaxCap.
MaxCap == 2

\* Largest number of blocks in the files of arbitrary content handed to
\* sanitize_srt_file (files of one repeated phrase go up to MAX_REPEATS).
MaxBlocks == 3
\* Number of consecutive sanitize_srt_file calls on one file.
MaxRuns == 2
\* Largest number of segments in a response handed to convert_to_srt.
MaxSegs == 2
\* Largest number of entries in the directory cleanup_output_dir is given.
MaxEntries == 4

\* ------------------------------------------------------- program constants
\* transcribe_audio: MAX_CONCURRENT_TRANSACTIONS = 1
MAX_CONCURRENT_TRANSACTIONS == 1
\* sanitize_srt_file(srt_file_path, max_repeats=5, ...), and the value
\* cleanup_output_dir passes.
MAX_REPEATS == 5

Tasks == 1..MaxTasks

\* Values of --speech-to-text the model feeds to main.
Langs == {"en", "EN", "fr"}

\* SUPPORTED_LANGUAGES = {"en": "English"}
SUPPORTED_LANGUAGES == {"en"}

\* str.lower() on the language codes of the model.
Lower(l) == IF l = "EN" THEN "en" ELSE l

VARIABLES
  \* ---- pipeline
  lang,      \* args.speech_to_text
  mainpc,    \* position of main()
  exitcode,  \* -1 while running, else the process's exit status
  creds,     \* TRUE once load_api_credentials has been called
  vid,       \* index of the video main's loop is at
  calls,     \* number of process_video calls made so far
  cap,       \* the semaphore's initial value K
  m,         \* len(audio_paths) of the current batch
  started,   \* number of tasks of the batch whose first step has run
  pc,        \* position of each task of the batch
  sem,       \* semaphore._value: free slots
  waiters,   \* semaphore._waiters: FIFO of tasks
  file,      \* what each task's output SRT path holds
  outcome,   \* how each task's job went
  tlog,      \* log lines emitted on behalf of each task
  reqs,      \* requests issued to the service, per task
  \* ---- sanitizer
  spc,       \* number of sanitize_srt_file calls completed
  sfile,     \* blocks of the SRT file on disk
  sinput,    \* blocks of the file before the first call
  shist,     \* file contents after each completed call
  sres,      \* result of each completed call
  max_repeats,
  additional_phrases,
  \* ---- timestamp functions of utils.py
  ct,        \* the time handed to an encoder, in milliseconds
  cop,       \* which encoder has run
  cout,      \* the string it returned
  cback,     \* parse_srt_timestamp of that string: <<ms>>, or <<>> if it raised
  \* ---- post-processing of one response (convert, save, fix)
  upc,       \* "ready" before the post-processing, "done" after it
  upath,     \* the output path of the job
  usegs,     \* response.segments
  ufile,     \* content of each output path
  uprior,    \* content of each output path before the job
  usaved,    \* content of upath when fix_first_segment_start_time is called
  ulog,      \* log lines of the job
  ures,      \* the faults the job met and what it raised
  \* ---- cleanup_output_dir on one video output directory
  dpc,       \* "ready" before the call, "loop" inside it, "done" after it
  dinit,     \* what the directory held when the call began
  dfiles,    \* what the directory holds: the state of each name
  listing,   \* the list os.listdir returned
  dk,        \* position of the loop in that list
  subtitle_renamed,
  sanitized, \* the paths sanitize_srt_file was called on, in order
  dfailed    \* TRUE once a filesystem call of the run has raised

pvars == <<lang, mainpc, exitcode, creds, vid, calls, cap, m, started, pc, sem,
           waiters, file, outcome, tlog, reqs>>
svars == <<spc, sfile, sinput, shist, sres, max_repeats, additional_phrases>>
cvars == <<ct, cop, cout, cback>>
uvars == <<upc, upath, usegs, ufile, uprior, usaved, ulog, ures>>
dvars == <<dpc, dinit, dfiles, listing, dk, subtitle_renamed, sanitized,
           dfailed>>
vars == <<pvars, svars, cvars, uvars, dvars>>

\* No timestamp function is being applied.
CodecIdle ==
  /\ ct = 0
  /\ cop = "off"
  /\ cout = <<>>
  /\ cback = <<>>

\* No response is being post-processed.
SrtIdle ==
  /\ upc = "off"
  /\ upath = ""
  /\ usegs = <<>>
  /\ ufile = <<>>
  /\ uprior = <<>>
  /\ usaved = <<>>
  /\ ulog = {}
  /\ ures = <<>>

UtilIdle == CodecIdle /\ SrtIdle

\* cleanup_output_dir is not running.
DirIdle ==
  /\ dpc = "off"
  /\ dinit = <<>>
  /\ dfiles = <<>>
  /\ listing = <<>>
  /\ dk = 0
  /\ subtitle_renamed = FALSE
  /\ sanitized = <<>>
  /\ dfailed = FALSE

\* =========================================================================
\* Pipeline
\* =========================================================================

NoOutcome == [resp |-> "none", save |-> "none", fix |-> "none"]

\* What an output path can hold.
\*   absent  : no file
\*   valid   : a complete SRT left by an earlier run
\*   saved   : the complete text convert_to_srt produced
\*   fixed   : that text with the first start time rewritten
\*   empty   : zero bytes written for an empty convert_to_srt result
\*   partial : truncated by open(path, 'w') and not written to the end
FileStates == {"absent", "valid", "saved", "fixed", "empty", "partial"}

\* ---- asyncio.Semaphore (acquire / release / _wake_up_next)
SemState == [sem |-> sem, waiters |-> waiters, pc |-> pc]

Pending(s) == {k \in 1..Len(s.waiters) : s.pc[s.waiters[k]] = "waiting"}

\* Mutant: the slot goes to the waiter that queued last.
WakeUpLast(s) ==
  IF Pending(s) = {} THEN s
  ELSE LET k == CHOOSE k \in Pending(s) : \A k2 \in Pending(s) : k >= k2
       IN [s EXCEPT !.sem = @ - 1, !.pc[s.waiters[k]] = "woken"]

\* _wake_up_next: hand a slot to the first waiter whose future is not done.
WakeUpNext(s) ==
  IF Pending(s) = {} THEN s
  ELSE LET k == CHOOSE k \in Pending(s) : \A k2 \in Pending(s) : k <= k2
       IN [s EXCEPT !.sem = @ - 1, !.pc[s.waiters[k]] = "woken"]

\* release(): _value += 1; _wake_up_next()
ReleaseSem(s) == WakeUpNext([s EXCEPT !.sem = @ + 1])

\* Mutant: the slot is not given back on the way out.
ExitSlotLeaks(s) == s

\* __aexit__ of `async with semaphore`, reached on every way out of the body.
ExitSlot(s) == ReleaseSem(s)

\* Mutant: acquire() never finds the semaphore locked.
LockedNever(s) == FALSE

\* locked(): no free slot, or somebody queued before us.
Locked(s) == s.sem = 0 \/ s.waiters # <<>>

RemoveWaiter(ws, i) == SelectSeq(ws, LAMBDA x : x # i)


\* ---- transcribe_single_audio, up to its first suspension point
\* What the task meets on entry: the audio file is there and opens ("go"),
\* os.path.exists is false ("missing"), or open(audio_path, "rb") raises
\* ("openfail").
EntryChoices == {"go", "missing", "openfail"}

\* `if speech_to_text != "en": return` comes before anything else.
EntryKind(e) == IF lang # "en" THEN "lang" ELSE e

\* The log line each early way out writes.
EntryLog(k) ==
  CASE k = "lang"     -> {"L136"}
    [] k = "missing"  -> {"L188"}
    [] k = "openfail" -> {"L182"}
    [] OTHER          -> {}

\* Mutant: the request is sent again after the first attempt.
DispatchTwice(r, i) == [r EXCEPT ![i] = @ + 2]

\* `await loop.run_in_executor(None, run_transcription)`: one call of
\* client.audio.transcriptions.create for the task's audio file.
Dispatch(r, i) == [r EXCEPT ![i] = @ + 1]

\* Task i holds a slot (state s) and runs the body until it suspends in
\* run_in_executor or returns.
Enter(i, s, e) ==
  LET k == EntryKind(e)
      s2 == IF k = "go"
            THEN [s EXCEPT !.pc[i] = "inflight"]
            ELSE ExitSlot([s EXCEPT !.pc[i] = "done"])
  IN /\ pc' = s2.pc
     /\ sem' = s2.sem
     /\ waiters' = s2.waiters
     /\ reqs' = IF k = "go" THEN Dispatch(reqs, i) ELSE reqs
     /\ outcome' = IF k = "go" THEN outcome
                   ELSE [outcome EXCEPT ![i].resp = k]
     /\ tlog' = [tlog EXCEPT ![i] = @ \cup EntryLog(k)]
     /\ UNCHANGED file

\* First step of task i (sem_transcribe): the event loop runs the tasks'
\* first steps in the order gather() created them.
TaskStart(i) ==
  /\ mainpc = "gather"
  /\ i <= m
  /\ pc[i] = "new"
  /\ i = started + 1
  /\ started' = started + 1
  /\ IF Locked(SemState)
     THEN /\ waiters' = Append(waiters, i)
          /\ pc' = [pc EXCEPT ![i] = "waiting"]
          /\ UNCHANGED <<sem, file, outcome, tlog, reqs>>
     ELSE \E e \in EntryChoices :
            Enter(i, [SemState EXCEPT !.sem = @ - 1], e)
  /\ UNCHANGED <<lang, mainpc, exitcode, creds, vid, calls, cap, m>>
  /\ UNCHANGED <<svars, cvars, uvars, dvars>>

\* The first steps of all tasks are queued on the event loop by gather()
\* before transcribe_audio suspends; the loop runs its ready queue in order,
\* so whatever a first step triggers (a finished executor call, a woken
\* waiter) runs after the first step of every task.
FirstStepsDone == started = m

\* set_result on a waiter's future schedules the waiter's wake-up with
\* call_soon, and the loop runs its ready queue first in, first out: of the
\* waiters that were handed a slot, the one queued first resumes first.
ReadyFirst(i) ==
  \E k \in 1..Len(waiters) :
    /\ waiters[k] = i
    /\ \A k2 \in 1..(k - 1) : pc[waiters[k2]] # "woken"

\* A waiter whose future was set resumes inside acquire(): it leaves the
\* queue, passes a spare slot on, and enters the body.
TaskResume(i) ==
  /\ mainpc = "gather"
  /\ FirstStepsDone
  /\ pc[i] = "woken"
  /\ ReadyFirst(i)
  /\ LET s0 == [SemState EXCEPT !.waiters = RemoveWaiter(waiters, i)]
         s1 == IF s0.sem > 0 THEN WakeUpNext(s0) ELSE s0
     IN \E e \in EntryChoices : Enter(i, s1, e)
  /\ UNCHANGED <<lang, mainpc, exitcode, creds, vid, calls, cap, m, started>>
  /\ UNCHANGED <<svars, cvars, uvars, dvars>>

\* ---- the rest of transcribe_single_audio, once the executor call is over
\* The service call raises, returns a falsy object, returns a response whose
\* convert_to_srt text is empty ("noseg"), or one with blocks ("segs").
Responses == {"raise", "falsy", "noseg", "segs"}

\* save_srt_file: written to the end ("ok"); open(path, 'w') raises and the
\* path is untouched ("nofile"); the file is truncated and the write raises
\* before the end ("torn").
SaveChoices(resp) ==
  CASE resp = "segs"  -> {"ok", "nofile", "torn"}
    [] resp = "noseg" -> {"ok", "nofile"}
    [] OTHER          -> {"none"}

AfterSave(prior, resp, sv) ==
  CASE sv = "ok"   -> IF resp = "segs" THEN "saved" ELSE "empty"
    [] sv = "torn" -> "partial"
    [] OTHER       -> prior

\* fix_first_segment_start_time on a path holding f: the first block is
\* rewritten ("ok"); re.match fails ("noparse"); reading, parse_srt_timestamp
\* or open(path, 'w') raises with the path untouched ("exc"); the rewrite
\* truncates the file and raises before the end ("torn").
FixChoices(resp, f) ==
  CASE resp \notin {"segs", "noseg"} -> {"none"}
    [] f = "absent" -> {"exc"}
    [] f = "empty"  -> {"noparse", "exc"}
    [] f = "saved"  -> {"ok", "exc", "torn"}
    [] OTHER        -> {"ok", "noparse", "exc", "torn"}

AfterFix(f, fx) ==
  CASE fx = "ok"   -> IF f = "saved" THEN "fixed" ELSE f
    [] fx = "torn" -> "partial"
    [] OTHER       -> f

\* `except Exception as e` around the call and the post-processing catches
\* whatever is raised there (the UnboundLocalError of the else branch too).
Caught(resp) == TRUE

\* Mutant: the except clause swallows the exception without a log line.
JobLogSilent(resp, sv, fx) ==
     (IF resp = "noseg" THEN {"NOSEG"} ELSE {})
  \cup (IF sv \in {"nofile", "torn"} THEN {"SAVE_ERR"} ELSE {})
  \cup (IF fx = "noparse" THEN {"FIX_PARSE"} ELSE {})
  \cup (IF fx \in {"exc", "torn"} THEN {"FIX_EXC"} ELSE {})

\* Log lines of the job.
JobLog(resp, sv, fx) ==
     (IF resp \in {"raise", "falsy"} /\ Caught(resp) THEN {"L182"} ELSE {})
  \cup (IF resp = "noseg" THEN {"NOSEG"} ELSE {})
  \cup (IF sv \in {"nofile", "torn"} THEN {"SAVE_ERR"} ELSE {})
  \cup (IF fx = "noparse" THEN {"FIX_PARSE"} ELSE {})
  \cup (IF fx \in {"exc", "torn"} THEN {"FIX_EXC"} ELSE {})

\* The executor call of task i ends and the task runs to its end.
ServiceComplete(i) ==
  /\ mainpc = "gather"
  /\ FirstStepsDone
  /\ pc[i] = "inflight"
  /\ \E resp \in Responses :
       \E sv \in SaveChoices(resp) :
         \E fx \in FixChoices(resp, AfterSave(file[i], resp, sv)) :
           LET s2 == ExitSlot([SemState EXCEPT !.pc[i] = "done"])
           IN /\ pc' = s2.pc
              /\ sem' = s2.sem
              /\ waiters' = s2.waiters
              /\ file' = [file EXCEPT
                            ![i] = AfterFix(AfterSave(@, resp, sv), fx)]
              /\ outcome' = [outcome EXCEPT
                               ![i] = [resp |-> resp, save |-> sv, fix |-> fx]]
              /\ tlog' = [tlog EXCEPT ![i] = @ \cup JobLog(resp, sv, fx)]
  /\ UNCHANGED <<lang, mainpc, exitcode, creds, vid, calls, cap, m, started,
                 reqs>>
  /\ UNCHANGED <<svars, cvars, uvars, dvars>>


\* ---- main() and process_video()
SanIdle ==
  /\ spc = 0
  /\ sfile = <<>>
  /\ sinput = <<>>
  /\ shist = <<>>
  /\ sres = <<>>
  /\ max_repeats = 0
  /\ additional_phrases = {}

Init ==
  /\ lang \in Langs
  /\ cap \in MAX_CONCURRENT_TRANSACTIONS..MaxCap
  /\ mainpc = "args"
  /\ exitcode = -1
  /\ creds = FALSE
  /\ vid = 1
  /\ calls = 0
  /\ m = 0
  /\ started = 0
  /\ pc = [i \in Tasks |-> "off"]
  /\ sem = cap
  /\ waiters = <<>>
  /\ file = [i \in Tasks |-> "absent"]
  /\ outcome = [i \in Tasks |-> NoOutcome]
  /\ tlog = [i \in Tasks |-> {}]
  /\ reqs = [i \in Tasks |-> 0]
  /\ SanIdle
  /\ UtilIdle
  /\ DirIdle

\* main: `if args.speech_to_text.lower() not in SUPPORTED_LANGUAGES: sys.exit(1)`
Validate ==
  /\ mainpc = "args"
  /\ IF Lower(lang) \notin SUPPORTED_LANGUAGES
     THEN mainpc' = "exited" /\ exitcode' = 1
     ELSE mainpc' = "creds" /\ UNCHANGED exitcode
  /\ UNCHANGED <<lang, creds, vid, calls, cap, m, started, pc, sem, waiters,
                 file, outcome, tlog, reqs>>
  /\ UNCHANGED <<svars, cvars, uvars, dvars>>

\* main: load_api_credentials / create_client; either may end the process
\* with status 1.
LoadCreds ==
  /\ mainpc = "creds"
  /\ creds' = TRUE
  /\ \E ok \in BOOLEAN :
       IF ok THEN mainpc' = "loop" /\ UNCHANGED exitcode
             ELSE mainpc' = "exited" /\ exitcode' = 1
  /\ UNCHANGED <<lang, vid, calls, cap, m, started, pc, sem, waiters, file,
                 outcome, tlog, reqs>>
  /\ UNCHANGED <<svars, cvars, uvars, dvars>>

\* What the steps of process_video before the transcription can meet:
\*   copy         : shutil.copy raises
\*   tool_failed  : ffmpeg ends with a non-zero status
\*                  (subprocess.CalledProcessError under check=True)
\*   tool_missing : the ffprobe / ffmpeg executable is not installed
\*                  (subprocess.run raises FileNotFoundError)
\*   separation   : separate_audio fails
StepFaults == {"none", "copy", "tool_failed", "tool_missing", "separation"}

\* The copy is under `except Exception` and separate_audio has its own;
\* has_subtitles, detach_subtitles and detach_audio catch
\* subprocess.CalledProcessError only, and neither process_video nor main
\* wraps their calls.
Contained(fault) == fault # "tool_missing"

\* How many audio paths can survive to transcription_tasks.
AudioPaths(fault) == IF fault = "copy" THEN {0} ELSE 0..MaxTasks

\* process_video up to asyncio.run(transcribe_audio(...)): n audio paths
\* survive to transcription_tasks (none when the copy fails or no audio was
\* detached); transcribe_audio then builds its semaphore and its tasks. The
\* output directory is fresh, or holds the SRT files of an earlier run. An
\* exception that nothing catches leaves process_video and main, and the
\* interpreter ends with a traceback and status 1.
ProcessVideo ==
  /\ mainpc = "loop"
  /\ vid <= NumVideos
  /\ calls' = calls + 1
  /\ \E fault \in StepFaults :
       IF ~Contained(fault)
       THEN /\ mainpc' = "aborted"
            /\ exitcode' = 1
            /\ m' = 0
            /\ vid' = vid
            /\ file' = [i \in Tasks |-> "absent"]
            /\ pc' = [i \in Tasks |-> "off"]
       ELSE \E n \in AudioPaths(fault) :
              /\ m' = n
              /\ IF n = 0
                 THEN /\ mainpc' = "loop"
                      /\ vid' = vid + 1
                      /\ file' = [i \in Tasks |-> "absent"]
                 ELSE /\ mainpc' = "gather"
                      /\ vid' = vid
                      /\ \E rerun \in BOOLEAN :
                           file' = [i \in Tasks |->
                                      IF rerun /\ i <= n THEN "valid"
                                      ELSE "absent"]
              /\ pc' = [i \in Tasks |-> IF i <= n THEN "new" ELSE "off"]
              /\ UNCHANGED exitcode
  /\ started' = 0
  /\ sem' = cap
  /\ waiters' = <<>>
  /\ outcome' = [i \in Tasks |-> NoOutcome]
  /\ tlog' = [i \in Tasks |-> {}]
  /\ reqs' = [i \in Tasks |-> 0]
  /\ UNCHANGED <<lang, creds, cap>>
  /\ UNCHANGED <<svars, cvars, uvars, dvars>>

\* A task's result is an exception when what was raised in it was not caught.
Raised(i) == outcome[i].resp \in {"raise", "falsy"} /\ ~Caught(outcome[i].resp)

\* Mutant: the wait is over as soon as one task is.
GatherFirstDone == \E i \in 1..m : pc[i] = "done"

\* gather(*tasks, return_exceptions=True) is over when every task is; the
\* loop over results logs each exception with its audio path, and
\* transcribe_audio returns.
GatherDone == \A i \in 1..m : pc[i] = "done"

BatchReturn ==
  /\ mainpc = "gather"
  /\ GatherDone
  /\ mainpc' = "cleanup"
  /\ tlog' = [i \in Tasks |-> IF i <= m /\ Raised(i)
                              THEN tlog[i] \cup {"L123"} ELSE tlog[i]]
  /\ UNCHANGED <<lang, exitcode, creds, vid, calls, cap, m, started, pc, sem,
                 waiters, file, outcome, reqs>>
  /\ UNCHANGED <<svars, cvars, uvars, dvars>>

\* process_video: cleanup_output_dir(video_output_dir), then back to main's
\* loop for the next file; the batch and its locals are gone.
Cleanup ==
  /\ mainpc = "cleanup"
  /\ mainpc' = "loop"
  /\ vid' = vid + 1
  /\ m' = 0
  /\ started' = 0
  /\ pc' = [i \in Tasks |-> "off"]
  /\ file' = [i \in Tasks |-> "absent"]
  /\ outcome' = [i \in Tasks |-> NoOutcome]
  /\ tlog' = [i \in Tasks |-> {}]
  /\ reqs' = [i \in Tasks |-> 0]
  /\ UNCHANGED <<lang, exitcode, creds, calls, cap, sem, waiters>>
  /\ UNCHANGED <<svars, cvars, uvars, dvars>>

\* main: the walk is over; the end-of-run lines are logged.
EndRun ==
  /\ mainpc = "loop"
  /\ vid > NumVideos
  /\ mainpc' = "finished"
  /\ exitcode' = 0
  /\ UNCHANGED <<lang, creds, vid, calls, cap, m, started, pc, sem, waiters,
                 file, outcome, tlog, reqs>>
  /\ UNCHANGED <<svars, cvars, uvars, dvars>>

Next ==
  \/ Validate
  \/ LoadCreds
  \/ ProcessVideo
  \/ \E i \in Tasks : TaskStart(i)
  \/ \E i \in Tasks : TaskResume(i)
  \/ \E i \in Tasks : ServiceComplete(i)
  \/ BatchReturn
  \/ Cleanup
  \/ EndRun

Spec == Init /\ [][Next]_vars

\* The event loop runs every ready task, every executor call returns or
\* raises, and main runs on: no step that can be taken is put off for ever.
FairSpec == Spec /\ WF_vars(Next)


\* =========================================================================
\* Phrase sanitizer (cleaning_and_sanitization.py)
\* =========================================================================

\* Characters of the subtitle texts of the model, by the classes the two
\* regular expressions and str.lower() tell apart.
Whitespace == {" ", "\n"}
Punctuation == {".", "!"}

\* str.lower() on one character.
LowerChar(c) ==
  CASE c = "O" -> "o"
    [] c = "N" -> "n"
    [] OTHER   -> c

\* re.sub(r'[^\w\s]', '', phrase)
StripPunct(t) == SelectSeq(t, LAMBDA c : c \notin Punctuation)

\* re.sub(r'\s+', ' ', phrase): every run of whitespace becomes one space.
RECURSIVE CollapseSpaces(_)
CollapseSpaces(t) ==
  IF Len(t) = 0 THEN <<>>
  ELSE
    LET rest == CollapseSpaces(Tail(t))
    IN IF Head(t) \in Whitespace
       THEN IF Len(t) > 1 /\ t[2] \in Whitespace THEN rest ELSE <<" ">> \o rest
       ELSE <<Head(t)>> \o rest

\* str.strip()
RECURSIVE LStrip(_)
LStrip(t) ==
  IF Len(t) > 0 /\ Head(t) \in Whitespace THEN LStrip(Tail(t)) ELSE t

RECURSIVE RStrip(_)
RStrip(t) ==
  IF Len(t) > 0 /\ t[Len(t)] \in Whitespace
  THEN RStrip(SubSeq(t, 1, Len(t) - 1)) ELSE t

Strip(t) == RStrip(LStrip(t))

\* str.lower()
LowerCase(t) == [k \in 1..Len(t) |-> LowerChar(t[k])]

normalize_phrase(phrase) == LowerCase(Strip(CollapseSpaces(StripPunct(phrase))))

\* Subtitle texts of the model: two spellings of "ok" and one of "no w".
RawTexts ==
  { <<"O", "k", ".">>,
    <<" ", "o", "k">>,
    <<"N", "o", " ", " ", "w">> }

\* What additional_phrases can be: nothing, or another spelling of "no w".
DenyLists == { {}, { <<"n", "o", " ", "w", "!">> } }

\* The string literals written between the braces of
\* additional_phrases_to_remove, in the order of the source; two phrases of
\* the model's alphabet stand for the seventeen of the source.
ListedPhrases == << <<"O", "k", ".">>, <<"N", "o", " ", "w", "!">> >>

\* Adjacent string literals with no comma between them are one literal.
RECURSIVE Concatenated(_)
Concatenated(parts) ==
  IF Len(parts) = 0 THEN <<>> ELSE Head(parts) \o Concatenated(Tail(parts))

\* cleanup_output_dir: additional_phrases_to_remove = { "..." "..." ... },
\* a set literal whose lines carry no commas, hence a set of one string.
additional_phrases_to_remove == { Concatenated(ListedPhrases) }

\* (start, end) of a block, in seconds.
TimeRanges == { <<0, 1>>, <<1, 2>> }

\* A subtitle item as pysrt holds it; `id` is the position the block had in
\* the file before the first call, kept to tell blocks apart.
MkBlock(k, tr, txt) ==
  [index |-> k, start |-> tr[1], end |-> tr[2], text |-> txt, id |-> k]

\* Files of up to MaxBlocks blocks of any of the texts, numbered from 1 as
\* convert_to_srt numbers them, in any time order.
GeneralFiles ==
  UNION { { [k \in 1..n |-> MkBlock(k, f[k][1], f[k][2])] :
            f \in [1..n -> TimeRanges \X RawTexts] } : n \in 0..MaxBlocks }

\* Files of MAX_REPEATS - 1 or MAX_REPEATS blocks that all say "ok", in one
\* spelling or the other, one second after the other.
OkTexts == {t \in RawTexts : normalize_phrase(t) = <<"o", "k">>}

RepeatFiles ==
  UNION { { [k \in 1..n |-> MkBlock(k, <<k - 1, k>>, f[k])] :
            f \in [1..n -> OkTexts] } : n \in (MAX_REPEATS - 1)..MAX_REPEATS }

Files == GeneralFiles \cup RepeatFiles

\* phrase_counts[phrase]
PhraseCount(subs, p) ==
  Cardinality({k \in 1..Len(subs) : normalize_phrase(subs[k].text) = p})

\* Mutant: a phrase is over-repeated only above the threshold.
OverRepeatedStrict(subs, maxr) ==
  {p \in {normalize_phrase(subs[k].text) : k \in 1..Len(subs)} :
     PhraseCount(subs, p) > maxr}

\* over_repeated_phrases
OverRepeated(subs, maxr) ==
  {p \in {normalize_phrase(subs[k].text) : k \in 1..Len(subs)} :
     PhraseCount(subs, p) >= maxr}

\* normalized_additional_phrases
NormalizedAdditional(extra) == {normalize_phrase(p) : p \in extra}

\* phrases_to_remove
PhrasesToRemove(subs, maxr, extra) ==
  OverRepeated(subs, maxr) \cup NormalizedAdditional(extra)

\* Mutant: only the first block of each phrase to remove is dropped.
KeepBlocksDropFirst(subs, remove) ==
  LET first(p) == CHOOSE k \in 1..Len(subs) :
                    /\ normalize_phrase(subs[k].text) = p
                    /\ \A j \in 1..(k - 1) : normalize_phrase(subs[j].text) # p
  IN SelectSeq(subs, LAMBDA b :
       \/ normalize_phrase(b.text) \notin remove
       \/ subs[first(normalize_phrase(b.text))].id # b.id)

\* subtitles[:] = [subtitle for subtitle in subtitles if ... not in ...]
KeepBlocks(subs, remove) ==
  SelectSeq(subs, LAMBDA b : normalize_phrase(b.text) \notin remove)

\* The order of pysrt items: by (start, end).
Before(a, b) == a.start < b.start \/ (a.start = b.start /\ a.end < b.end)

\* list.sort() is stable: an item goes behind every item that is not after it.
RECURSIVE InsertSorted(_, _)
InsertSorted(b, subs) ==
  IF Len(subs) = 0 THEN <<b>>
  ELSE IF Before(b, Head(subs)) THEN <<b>> \o subs
  ELSE <<Head(subs)>> \o InsertSorted(b, Tail(subs))

RECURSIVE SortSubs(_)
SortSubs(subs) ==
  IF Len(subs) = 0 THEN <<>>
  ELSE InsertSorted(subs[Len(subs)], SortSubs(SubSeq(subs, 1, Len(subs) - 1)))

\* SubRipFile.clean_indexes(): self.sort(), then item.index = position.
clean_indexes(subs) ==
  LET sorted == SortSubs(subs)
  IN [k \in 1..Len(sorted) |-> [sorted[k] EXCEPT !.index = k]]

\* What sanitize_srt_file hands to subtitles.save().
Sanitized(subs, maxr, extra) ==
  clean_indexes(KeepBlocks(subs, PhrasesToRemove(subs, maxr, extra)))

\* Where a call can fail: pysrt.open ("open"), the counting loop ("count"),
\* the filter ("filter"), clean_indexes ("reindex"), opening the file for
\* writing ("save_open"), or after the file was truncated and before its
\* last block was written ("save_torn").
PreSaveFaults == {"open", "count", "filter", "reindex"}
Faults == {"none", "save_open", "save_torn"} \cup PreSaveFaults

\* Mutant: the file is opened for writing before the blocks are processed.
FileAfterTruncatedEarly(f, new, fault, cut) ==
  CASE fault = "none"      -> new
    [] fault = "save_torn" -> SubSeq(new, 1, cut)
    [] fault = "open"      -> f
    [] OTHER               -> <<>>

\* The file after a call that met `fault`; `cut` blocks reached the disk in
\* a torn save.
FileAfter(f, new, fault, cut) ==
  CASE fault = "none"      -> new
    [] fault = "save_torn" -> SubSeq(new, 1, cut)
    [] OTHER               -> f

\* `except Exception as e: logging.error(...)`: every failure is logged and
\* none leaves the function.
CallResult(fault) ==
  [fault |-> fault, logged |-> fault # "none", raised |-> FALSE]

PipelineIdle ==
  /\ lang = "en"
  /\ cap = MAX_CONCURRENT_TRANSACTIONS
  /\ mainpc = "off"
  /\ exitcode = -1
  /\ creds = FALSE
  /\ vid = 1
  /\ calls = 0
  /\ m = 0
  /\ started = 0
  /\ pc = [i \in Tasks |-> "off"]
  /\ sem = cap
  /\ waiters = <<>>
  /\ file = [i \in Tasks |-> "absent"]
  /\ outcome = [i \in Tasks |-> NoOutcome]
  /\ tlog = [i \in Tasks |-> {}]
  /\ reqs = [i \in Tasks |-> 0]

SanInit ==
  /\ PipelineIdle
  /\ UtilIdle
  /\ DirIdle
  /\ sinput \in Files
  /\ sfile = sinput
  /\ spc = 0
  /\ shist = <<>>
  /\ sres = <<>>
  /\ \/ /\ max_repeats \in 1..MAX_REPEATS
        /\ additional_phrases \in DenyLists
     \/ \* the call cleanup_output_dir makes
        /\ max_repeats = MAX_REPEATS
        /\ additional_phrases = additional_phrases_to_remove

\* One call sanitize_srt_file(path, max_repeats, additional_phrases); calls
\* on one file are followed up to the first that fails.
Sanitize ==
  /\ spc < MaxRuns
  /\ \A k \in 1..spc : sres[k].fault = "none"
  /\ LET new == Sanitized(sfile, max_repeats, additional_phrases)
     IN \E fault \in Faults :
          \E cut \in 0..Len(new) :
            /\ fault = "save_torn" => cut < Len(new)
            /\ fault # "save_torn" => cut = 0
            /\ sfile' = FileAfter(sfile, new, fault, cut)
            /\ shist' = Append(shist, sfile')
            /\ sres' = Append(sres, CallResult(fault))
  /\ spc' = spc + 1
  /\ UNCHANGED <<sinput, max_repeats, additional_phrases>>
  /\ UNCHANGED <<pvars, cvars, uvars, dvars>>

SanNext == Sanitize

SanSpec == SanInit /\ [][SanNext]_vars

\* =========================================================================
\* Properties of the pipeline
\* =========================================================================

Batch == 1..m

\* Tasks inside transcribe_single_audio: entered and not yet returned. The
\* only suspension point of the body is the executor call, so these are the
\* tasks with a request outstanding.
InFlight == {i \in Batch : pc[i] = "inflight"}

\* Tasks that own a slot: in the body, or handed one by release() and not
\* yet resumed.
Holders == {i \in Batch : pc[i] \in {"inflight", "woken"}}

InQueue(i) == \E k \in 1..Len(waiters) : waiters[k] = i

\* Log lines of level ERROR.
ErrorTags == {"L136", "L182", "L123", "SAVE_ERR", "FIX_PARSE", "FIX_EXC"}

\* Lines whose message carries the task's audio path.
NamesAudioPath == {"L182", "L123", "L188"}

ErrorReports == {r \in Batch \X ErrorTags : r[2] \in tlog[r[1]]}

\* No fault was injected into task i: its file was there, the service (if it
\* was asked) answered with blocks, and every write went through.
Unharmed(i) ==
  /\ outcome[i].resp \in {"none", "segs"}
  /\ outcome[i].save \in {"none", "ok"}
  /\ outcome[i].fix \in {"none", "ok"}

\* C1: at most K tasks are inside transcribe_single_audio at any instant, and
\* every started task that is neither inside nor finished is queued on the
\* semaphore, which it only is while all K slots are taken.
C1_ConcurrencyCap ==
  /\ Cardinality(InFlight) <= cap
  /\ \A i \in Batch :
       pc[i] \in {"waiting", "woken"} =>
         /\ InQueue(i)
         /\ (pc[i] = "waiting" => Cardinality(Holders) = cap)

C1_Witness ==
  /\ cap = MaxCap
  /\ Cardinality(InFlight) = cap
  /\ \E i \in Batch : pc[i] = "waiting"

\* C2: transcribe_audio has returned only if every task of the batch was
\* started and has ended, with a success or a failure; and a batch that was
\* started is eventually reported complete.
AllTerminal ==
  /\ started = m
  /\ \A i \in Batch : pc[i] = "done" /\ outcome[i].resp # "none"

C2_BatchJoin ==
  /\ [](mainpc = "cleanup" => AllTerminal)
  /\ (mainpc = "gather" ~> mainpc = "cleanup")

C2_Witness ==
  /\ mainpc = "cleanup"
  /\ m = MaxTasks
  /\ \E i, j \in Batch : outcome[i].resp = "raise" /\ outcome[j].resp = "segs"

\* C3: when the batch is reported and the service call raised for exactly one
\* input j while no fault hit any other input, every other input was served
\* and has its SRT written, and the only failure report is the one for j,
\* carrying j's audio path.
C3_Isolation ==
  \A j \in Batch :
    ( /\ mainpc = "cleanup"
      /\ outcome[j].resp = "raise"
      /\ \A i \in Batch \ {j} : Unharmed(i) )
    => /\ \A i \in Batch \ {j} : reqs[i] = 1 /\ file[i] = "fixed"
       /\ Cardinality(ErrorReports) = 1
       /\ \A r \in ErrorReports : r[1] = j /\ r[2] \in NamesAudioPath

C3_Witness ==
  /\ mainpc = "cleanup"
  /\ m = MaxTasks
  /\ \E j \in Batch :
       /\ outcome[j].resp = "raise"
       /\ \A i \in Batch \ {j} : Unharmed(i) /\ file[i] = "fixed"
       /\ ErrorReports = {<<j, "L182">>}

\* C4: the free slots are always between 0 and K, every missing slot is owned
\* by a task that has not ended, requests are issued only by slot owners, and
\* when the batch is reported all K slots are free.
C4_NoSlotLeak ==
  /\ sem \in 0..cap
  /\ sem + Cardinality(Holders) = cap
  /\ (mainpc = "cleanup" => sem = cap)

C4_Witness ==
  /\ mainpc = "cleanup"
  /\ sem = cap
  /\ \E i, j, k \in Batch :
       /\ outcome[i].resp = "raise"
       /\ outcome[j].resp = "missing"
       /\ outcome[k].resp = "segs"

\* C5 (as claimed): whenever the language code is anything other than "en",
\* the process exits with a non-zero status straight after validation, never
\* loads credentials, never calls process_video, and no request is issued
\* and no SRT written.
C5_UnsupportedLanguage ==
  lang # "en" =>
    /\ mainpc \in {"args", "exited"}
    /\ (mainpc = "exited" => exitcode = 1)
    /\ creds = FALSE
    /\ calls = 0
    /\ \A i \in Tasks : reqs[i] = 0 /\ file[i] \in {"absent", "valid"}

\* C6 (as claimed): once a job has ended, its output path is absent or holds
\* a complete SRT, never a truncated one.
C6_AllOrNothing ==
  \A i \in Batch : pc[i] = "done" => file[i] # "partial"

\* C21 (as claimed): whatever fails while a video is processed, main's loop
\* is never left early: the run is not aborted, and when the end-of-run
\* lines are logged process_video has been called for every video file.
C21_RunNeverAborted ==
  /\ mainpc # "aborted"
  /\ (mainpc = "finished" => calls = NumVideos)

\* The audio file of input i was there when the task looked for it.
Found(i) == outcome[i].resp \notin {"none", "lang", "missing"}

\* ... and open(audio_path, "rb") gave a file object.
Opened(i) == Found(i) /\ outcome[i].resp # "openfail"

\* C22 (as claimed): with the language "en", when transcribe_audio has
\* returned, exactly one request was issued for each input whose file
\* existed and none for an input whose file was missing; no input ever has
\* two requests.
C22_ExactlyOnce ==
  /\ \A i \in Tasks : reqs[i] <= 1
  /\ (mainpc = "cleanup" /\ lang = "en") =>
       \A i \in Batch : reqs[i] = IF Found(i) THEN 1 ELSE 0

\* C22 (amended): no input ever has two requests; with the language "en",
\* when transcribe_audio has returned, exactly one request was issued for
\* each input whose file existed and could be opened, and none for an input
\* whose file was missing or could not be opened.
C22_OnceIfOpened ==
  /\ \A i \in Tasks : reqs[i] <= 1
  /\ (mainpc = "cleanup" /\ lang = "en") =>
       \A i \in Batch : reqs[i] = IF Opened(i) THEN 1 ELSE 0

C22_Witness ==
  /\ mainpc = "cleanup"
  /\ lang = "en"
  /\ \E i, j, k \in Batch :
       /\ outcome[i].resp = "missing" /\ reqs[i] = 0
       /\ outcome[j].resp = "openfail" /\ reqs[j] = 0
       /\ outcome[k].resp = "raise" /\ reqs[k] = 1

\* Task i was given a slot of the semaphore (and may have given it back).
Acquired(i) == pc[i] \in {"woken", "inflight", "done"}

\* Task i is past acquire(): it entered the body, where the request is
\* issued.
Entered(i) == pc[i] \in {"inflight", "done"}

\* C23: for inputs i < j of a batch, whenever the task of j has been given a
\* slot so has the task of i, and whenever the task of j has entered the
\* body (and issued its request) so has the task of i, whatever the cap and
\* whatever order the requests complete in.
C23_FirstComeFirstServed ==
  \A i, j \in Batch :
    i < j => /\ Acquired(j) => Acquired(i)
             /\ Entered(j) => Entered(i)
             /\ reqs[j] > 0 => Entered(i)

\* A later input has completed while an earlier one is still being served,
\* and a third one waited for its slot.
C23_Witness ==
  /\ cap = MaxCap
  /\ \E i, j, k \in Batch :
       /\ i < j /\ j < k
       /\ pc[i] = "inflight"
       /\ pc[j] = "done" /\ reqs[j] = 1
       /\ pc[k] = "inflight" /\ reqs[k] = 1


\* =========================================================================
\* Properties of the sanitizer
\* =========================================================================

\* The file before call k.
FileBefore(k) == IF k = 1 THEN sinput ELSE shist[k - 1]

FirstCallDone == spc >= 1 /\ sres[1].fault = "none"

Phrase(k) == normalize_phrase(sinput[k].text)

Occurrences(k) ==
  Cardinality({j \in 1..Len(sinput) : Phrase(j) = Phrase(k)})

Denied(k) == \E p \in additional_phrases : normalize_phrase(p) = Phrase(k)

\* Block k of the input is in the file after the first call.
Survives(k) == \E j \in 1..Len(shist[1]) : shist[1][j].id = k

\* C7: after a call, a block of the input is gone if and only if its
\* normalized text occurs in at least max_repeats blocks or is the
\* normalization of a denylist entry; the survivors keep their text and times.
\* Five blocks of one phrase with max_repeats = 5 leave no block, and a phrase
\* occurring max_repeats - 1 times that is not denied stays.
C7_RemovalRule ==
  FirstCallDone =>
    /\ \A k \in 1..Len(sinput) :
         ~Survives(k) <=> (Occurrences(k) >= max_repeats \/ Denied(k))
    /\ \A j \in 1..Len(shist[1]) :
         LET b == shist[1][j]
             a == sinput[b.id]
         IN b.text = a.text /\ b.start = a.start /\ b.end = a.end
    /\ ( /\ Len(sinput) = 5
         /\ max_repeats = 5
         /\ \A k \in 1..Len(sinput) : Phrase(k) = Phrase(1) )
       => shist[1] = <<>>
    /\ \A k \in 1..Len(sinput) :
         (Occurrences(k) = max_repeats - 1 /\ ~Denied(k)) => Survives(k)

C7_Witness ==
  /\ FirstCallDone
  /\ Len(sinput) = 5
  /\ max_repeats = 5
  /\ \A k \in 1..Len(sinput) : Phrase(k) = Phrase(1)
  /\ \E j, k \in 1..Len(sinput) : sinput[j].text # sinput[k].text
  /\ shist[1] = <<>>

\* C8 (as claimed): after a call that removed k of n blocks, the blocks of
\* the file carry the indices 1..(n-k) in sequence and stand in the order
\* they had in the input.
C8_Reindex ==
  FirstCallDone =>
    /\ \A j \in 1..Len(shist[1]) : shist[1][j].index = j
    /\ \A i, j \in 1..Len(shist[1]) :
         i < j => shist[1][i].id < shist[1][j].id

\* C9: a call on the output of a successful call with the same threshold and
\* denylist leaves the file exactly as it found it.
C9_Idempotent ==
  \A k \in 2..spc :
    (sres[k - 1].fault = "none" /\ sres[k].fault = "none")
      => shist[k] = shist[k - 1]

C9_Witness ==
  /\ spc = 2
  /\ sres[1].fault = "none"
  /\ sres[2].fault = "none"
  /\ Len(shist[1]) < Len(sinput)
  /\ Len(shist[1]) >= 2
  /\ shist[2] = shist[1]

\* C10: a call that fails before the save leaves the file as it was, logs
\* the error and raises nothing; only a call that reached the save can have
\* changed the file.
C10_UntouchedBeforeSave ==
  \A k \in 1..spc :
    /\ sres[k].fault \in PreSaveFaults =>
         /\ shist[k] = FileBefore(k)
         /\ sres[k].logged
         /\ ~sres[k].raised
    /\ shist[k] # FileBefore(k) => sres[k].fault \in {"none", "save_torn"}

C10_Witness ==
  /\ spc = 2
  /\ sres[2].fault = "reindex"
  /\ shist[1] # sinput
  /\ shist[1] # <<>>
  /\ sfile = shist[1]
  /\ sres[2].logged

\* The call is the one cleanup_output_dir makes.
CleanupCall ==
  /\ max_repeats = MAX_REPEATS
  /\ additional_phrases = additional_phrases_to_remove

\* The text of block k of the input is one of the listed phrases.
Listed(k) ==
  \E n \in 1..Len(ListedPhrases) : sinput[k].text = ListedPhrases[n]

\* C24 (as claimed): after the sanitization that cleanup_output_dir applies,
\* no block whose text is one of the phrases listed in
\* additional_phrases_to_remove is left in the file, even when the phrase
\* occurs once.
C24_ListedPhraseRemoved ==
  (CleanupCall /\ FirstCallDone) =>
    \A k \in 1..Len(sinput) : Listed(k) => ~Survives(k)

\* =========================================================================
\* Strings and the timestamp functions (utils.py)
\* =========================================================================
\* A Python str is the sequence of its characters.

Digit == {"0", "1", "2", "3", "4", "5", "6", "7", "8", "9"}

DigitChar(d) == <<"0", "1", "2", "3", "4", "5", "6", "7", "8", "9">>[d + 1]

DigitVal(c) == CHOOSE d \in 0..9 : DigitChar(d) = c

Abs(n) == IF n < 0 THEN -n ELSE n

\* int(x) of a quotient: rounding toward zero.
TruncDiv(a, b) == IF a < 0 THEN -((-a) \div b) ELSE a \div b

\* str(n) for n >= 0.
RECURSIVE Decimal(_)
Decimal(n) ==
  IF n < 10 THEN <<DigitChar(n)>>
  ELSE Decimal(n \div 10) \o <<DigitChar(n % 10)>>

\* int(digits) for a non-empty string of digits.
RECURSIVE ToNat(_)
ToNat(x) ==
  IF Len(x) = 0 THEN 0
  ELSE 10 * ToNat(SubSeq(x, 1, Len(x) - 1)) + DigitVal(x[Len(x)])

AllDigits(x) == \A k \in 1..Len(x) : x[k] \in Digit

\* "0" * n
Zeros(n) == [k \in 1..(IF n > 0 THEN n ELSE 0) |-> "0"]

\* f"{n:0w}": the sign, then the digits filled with zeros up to width w.
Padded(n, w) ==
  LET sign == IF n < 0 THEN <<"-">> ELSE <<>>
      d == Decimal(Abs(n))
  IN sign \o Zeros(w - Len(sign) - Len(d)) \o d

\* sep.join(parts)
RECURSIVE Join(_, _)
Join(parts, sep) ==
  IF Len(parts) = 0 THEN <<>>
  ELSE IF Len(parts) = 1 THEN parts[1]
  ELSE parts[1] \o sep \o Join(Tail(parts), sep)

\* s.startswith(sub)
StartsWith(s, sub) == Len(sub) <= Len(s) /\ SubSeq(s, 1, Len(sub)) = sub

\* s.find(sub) + 1: the position of the first occurrence of sub, 0 if none.
RECURSIVE FindFrom(_, _, _)
FindFrom(s, sub, k) ==
  IF k + Len(sub) - 1 > Len(s) THEN 0
  ELSE IF SubSeq(s, k, k + Len(sub) - 1) = sub THEN k
  ELSE FindFrom(s, sub, k + 1)

Find(s, sub) == FindFrom(s, sub, 1)

\* s.split(sep) for a non-empty separator.
RECURSIVE Split(_, _)
Split(s, sep) ==
  LET k == Find(s, sep)
  IN IF k = 0 THEN <<s>>
     ELSE <<SubSeq(s, 1, k - 1)>> \o Split(SubSeq(s, k + Len(sep), Len(s)), sep)

\* s.replace(old, new, 1)
ReplaceFirst(s, old, new) ==
  LET k == Find(s, old)
  IN IF k = 0 THEN s
     ELSE SubSeq(s, 1, k - 1) \o new \o SubSeq(s, k + Len(old), Len(s))

\* len(text.split()): the number of maximal runs of non-whitespace.
RECURSIVE CountWords(_)
CountWords(t) ==
  IF Len(t) = 0 THEN 0
  ELSE (IF Head(t) \notin Whitespace
           /\ (Len(t) = 1 \/ t[2] \in Whitespace) THEN 1 ELSE 0)
       + CountWords(Tail(t))

\* The longest prefix of s whose characters are all in class.
RECURSIVE TakeWhile(_, _)
TakeWhile(s, class) ==
  IF Len(s) > 0 /\ Head(s) \in class
  THEN <<Head(s)>> \o TakeWhile(Tail(s), class)
  ELSE <<>>

Arrow == <<" ", "-", "-", ">", " ">>
NL == <<"\n">>

\* int((x - int(x)) * 1000) for a float x that stands for t milliseconds.
\* The fraction of a second is exact in binary when it is a multiple of 1/8;
\* otherwise the product lies a rounding error off the whole number of
\* milliseconds, on either side of it, and int() gives that number or the
\* one next to it toward zero. `short` says which.
FloatShort(t) == IF t % 125 = 0 THEN {0} ELSE {0, 1}

FloatMillis(t, short) ==
  LET exact == t - 1000 * TruncDiv(t, 1000)
  IN IF exact > 0 THEN exact - short
     ELSE IF exact < 0 THEN exact + short
     ELSE 0

\* format_time(seconds), the time given in milliseconds.
format_time(t, short) ==
  LET hours == t \div 3600000
      minutes == (t % 3600000) \div 60000
      secs == (t % 60000) \div 1000
      milliseconds == FloatMillis(t, short)
  IN Padded(hours, 2) \o <<":">> \o Padded(minutes, 2) \o <<":">>
       \o Padded(secs, 2) \o <<",">> \o Padded(milliseconds, 2)

\* One field of strptime: one or two digits, two digits at most `top`.
TimeField(x, top) ==
  /\ Len(x) \in {1, 2}
  /\ AllDigits(x)
  /\ ToNat(x) <= top

\* %f: one to six digits, read as a fraction of a second; in milliseconds.
FractionMillis(x) ==
  ToNat(x \o Zeros(6 - Len(x))) \div 1000

\* parse_srt_timestamp(timestamp): datetime.strptime(timestamp,
\* "%H:%M:%S,%f") - datetime(1900, 1, 1), in milliseconds as <<ms>>; <<>>
\* when strptime raises ValueError.
parse_srt_timestamp(timestamp) ==
  LET halves == Split(timestamp, <<",">>)
      hms == Split(halves[1], <<":">>)
  IN IF /\ Len(halves) = 2
        /\ Len(hms) = 3
        /\ TimeField(hms[1], 23)
        /\ TimeField(hms[2], 59)
        /\ TimeField(hms[3], 59)
        /\ Len(halves[2]) \in 1..6
        /\ AllDigits(halves[2])
     THEN << ToNat(hms[1]) * 3600000 + ToNat(hms[2]) * 60000
               + ToNat(hms[3]) * 1000 + FractionMillis(halves[2]) >>
     ELSE <<>>

\* str(timedelta(seconds=n)) for a whole number n of seconds.
TimedeltaStr(n) ==
  LET days == n \div 86400
      rest == n % 86400
      clock == Decimal(rest \div 3600) \o <<":">>
                 \o Padded((rest % 3600) \div 60, 2) \o <<":">>
                 \o Padded(rest % 60, 2)
      sign == IF days < 0 THEN <<"-">> ELSE <<>>
      plural == IF Abs(days) # 1 THEN <<"s">> ELSE <<>>
  IN IF days # 0
     THEN sign \o Decimal(Abs(days)) \o <<" ", "d", "a", "y">> \o plural
            \o <<",", " ">> \o clock
     ELSE clock

\* format_srt_timestamp(td), the timedelta given in milliseconds.
format_srt_timestamp(td, short) ==
  LET total_seconds == TruncDiv(td, 1000)
      milliseconds == FloatMillis(td, short)
      formatted_time == TimedeltaStr(total_seconds)
      padded == IF Len(Split(formatted_time, <<":">>)[1]) < 2
                THEN <<"0">> \o formatted_time ELSE formatted_time
  IN padded \o <<",">> \o Padded(milliseconds, 3)

\* wpm=50 of estimate_audio_length
WPM == 50

\* Mutant: a negative estimate.
EstimateNegative(word_count) == -((word_count * 60000) \div WPM)

\* estimate_audio_length(word_count): timedelta(minutes=word_count / wpm),
\* in milliseconds.
estimate_audio_length(word_count) == (word_count * 60000) \div WPM

\* ---- CodecSpec: one encoder applied to one time
\* Times of the model, in milliseconds: every combination of the hours,
\* minutes, seconds and milliseconds below (the hours run up to the 99 of
\* 359999.999 s), and some negative times.
CodecHours == {0, 1, 23, 24, 99}
CodecMinutes == {0, 59}
CodecSeconds == {0, 2, 10, 59}
CodecMillis == {0, 5, 50, 99, 100, 500, 999}
NegativeTimes == {-1, -500, -600, -1600, -4000, -3600000}

CodecTimes ==
  { h * 3600000 + mi * 60000 + s * 1000 + f :
      h \in CodecHours, mi \in CodecMinutes, s \in CodecSeconds,
      f \in CodecMillis }
  \cup NegativeTimes

CodecInit ==
  /\ PipelineIdle
  /\ SanIdle
  /\ SrtIdle
  /\ DirIdle
  /\ ct \in CodecTimes
  /\ cop = "none"
  /\ cout = <<>>
  /\ cback = <<>>

\* format_time(t), as convert_to_srt calls it on a segment's start and end,
\* and parse_srt_timestamp of the result, as fix_first_segment_start_time
\* reads the end time back.
FormatTime ==
  /\ cop = "none"
  /\ cop' = "format_time"
  /\ \E short \in FloatShort(ct) : cout' = format_time(ct, short)
  /\ cback' = parse_srt_timestamp(cout')
  /\ UNCHANGED ct
  /\ UNCHANGED <<pvars, svars, uvars, dvars>>

\* format_srt_timestamp(td), as fix_first_segment_start_time calls it on the
\* corrected start, and parse_srt_timestamp of the result.
FormatSrtTimestamp ==
  /\ cop = "none"
  /\ cop' = "format_srt_timestamp"
  /\ \E short \in FloatShort(ct) : cout' = format_srt_timestamp(ct, short)
  /\ cback' = parse_srt_timestamp(cout')
  /\ UNCHANGED ct
  /\ UNCHANGED <<pvars, svars, uvars, dvars>>

CodecNext == FormatTime \/ FormatSrtTimestamp

CodecSpec == CodecInit /\ [][CodecNext]_vars

\* =========================================================================
\* Post-processing of a response (utils.py, transcribe_single_audio)
\* =========================================================================
\* What a path holds: nothing, or a file with the given characters.
Absent == <<>>
File(content) == <<content>>

\* A segment of the response: start and end are <<>> for None (or a missing
\* attribute) and <<ms>> for a time; text is the string.
Seg(start, end, text) == [start |-> start, end |-> end, text |-> text]

HelloThere == <<"H", "e", "l", "l", "o", " ", "t", "h", "e", "r", "e">>
TestSentence ==
  <<"t", "h", "i", "s", " ", "i", "s", " ", "a", " ", "t", "e", "s", "t",
    " ", "s", "e", "n", "t", "e", "n", "c", "e">>

\* Segments of the model: complete ones with one, two and five words, early
\* and late ends, text to strip, and segments without a start, an end or a
\* text.
SegmentPool ==
  { Seg(<<0>>, <<2000>>, HelloThere),
    Seg(<<2000>>, <<4500>>, <<>>),
    Seg(<<>>, <<2000>>, <<"h", "i">>),
    Seg(<<0>>, <<>>, <<"h", "i">>),
    Seg(<<0>>, <<10000>>, TestSentence),
    Seg(<<0>>, <<600>>, <<" ", "h", "i", " ">>),
    Seg(<<1500>>, <<5000>>, <<"h", "i">>),
    Seg(<<0>>, <<2000>>, <<" ">>) }

\* response.segments: up to MaxSegs segments in any order.
SegmentLists == UNION { [1..n -> SegmentPool] : n \in 0..MaxSegs }

\* The times of the segments, and for each the outcome of the float
\* product in format_time (one outcome per value: floats are deterministic).
SegTimes ==
  UNION { (IF s.start = <<>> THEN {} ELSE {s.start[1]})
            \cup (IF s.end = <<>> THEN {} ELSE {s.end[1]}) : s \in SegmentPool }

FloatOutcomes == { fl \in [SegTimes -> {0, 1}] :
                     \A t \in SegTimes : fl[t] \in FloatShort(t) }

\* `if start_time is None or end_time is None or not text` of convert_to_srt
Incomplete(segment) ==
  \/ segment.start = <<>>
  \/ segment.end = <<>>
  \/ Strip(segment.text) = <<>>

\* Mutant: a skipped segment consumes an index.
RECURSIVE SrtOutputCountsSkipped(_, _, _)
SrtOutputCountsSkipped(segments, index, fl) ==
  IF Len(segments) = 0 THEN <<>>
  ELSE
    LET segment == Head(segments)
    IN IF Incomplete(segment)
       THEN SrtOutputCountsSkipped(Tail(segments), index + 1, fl)
       ELSE << Decimal(index),
               format_time(segment.start[1], fl[segment.start[1]]) \o Arrow
                 \o format_time(segment.end[1], fl[segment.end[1]]),
               Strip(segment.text),
               <<>> >>
            \o SrtOutputCountsSkipped(Tail(segments), index + 1, fl)

\* The list srt_output that the loop of convert_to_srt builds from `index`
\* on: four lines per emitted segment.
RECURSIVE SrtOutput(_, _, _)
SrtOutput(segments, index, fl) ==
  IF Len(segments) = 0 THEN <<>>
  ELSE
    LET segment == Head(segments)
    IN IF Incomplete(segment)
       THEN SrtOutput(Tail(segments), index, fl)
       ELSE << Decimal(index),
               format_time(segment.start[1], fl[segment.start[1]]) \o Arrow
                 \o format_time(segment.end[1], fl[segment.end[1]]),
               Strip(segment.text),
               <<>> >>
            \o SrtOutput(Tail(segments), index + 1, fl)

\* convert_to_srt(transcription_response)
convert_to_srt(segments, fl) ==
  IF Len(segments) = 0 THEN <<>>
  ELSE Join(SrtOutput(segments, 1, fl), NL)

\* Mutant: convert_to_srt warns of nothing.
ConvertLogSilent(segments) == {}

\* The warnings of convert_to_srt.
ConvertLog(segments) ==
  (IF Len(segments) = 0 THEN {"NO_SEGMENTS"} ELSE {})
  \cup (IF \E k \in 1..Len(segments) : Incomplete(segments[k])
        THEN {"SKIPPED"} ELSE {})

\* save_srt_file(srt_content, output_path) on a path holding f: the content
\* is written ("none"); open(path, 'w') raises and the path is untouched
\* ("wopen"); the path is truncated and the write raises after `cut`
\* characters ("torn"). The exception is logged, not raised.
save_srt_file(f, srt_content, fault, cut) ==
  CASE fault = "wopen" -> [file |-> f, log |-> {"SAVE_ERR"}]
    [] fault = "torn"  -> [file |-> File(SubSeq(srt_content, 1, cut)),
                           log |-> {"SAVE_ERR"}]
    [] OTHER           -> [file |-> File(srt_content), log |-> {"SAVED"}]

\* Where a write that fails midway may stop: at once, or halfway.
Cuts(content) == {0, Len(content) \div 2} \ {Len(content)}

TimeChars == Digit \cup {":", ","}

NoMatch ==
  [ok |-> FALSE, number |-> <<>>, start |-> <<>>, end |-> <<>>, text |-> <<>>]

\* re.match(r'(\d+)\n([\d:,]+) --> ([\d:,]+)\n(.+)', first_segment,
\* re.DOTALL): each class is followed by a character outside it, so the
\* greedy match is the only one.
Match(first_segment) ==
  LET number == TakeWhile(first_segment, Digit)
      r1 == SubSeq(first_segment, Len(number) + 1, Len(first_segment))
      r2 == SubSeq(r1, Len(NL) + 1, Len(r1))
      start == TakeWhile(r2, TimeChars)
      r3 == SubSeq(r2, Len(start) + 1, Len(r2))
      r4 == SubSeq(r3, Len(Arrow) + 1, Len(r3))
      end == TakeWhile(r4, TimeChars)
      r5 == SubSeq(r4, Len(end) + 1, Len(r4))
      text == SubSeq(r5, Len(NL) + 1, Len(r5))
  IN IF /\ Len(number) >= 1
        /\ StartsWith(r1, NL)
        /\ Len(start) >= 1
        /\ StartsWith(r3, Arrow)
        /\ Len(end) >= 1
        /\ StartsWith(r5, NL)
        /\ Len(text) >= 1
     THEN [ok |-> TRUE, number |-> number, start |-> start, end |-> end,
           text |-> text]
     ELSE NoMatch

\* srt_content.strip().split('\n\n')
SrtBlocks(srt_content) == Split(Strip(srt_content), NL \o NL)

\* correct_start_time of fix_first_segment_start_time for a matched first
\* block whose end time parses, in milliseconds.
CorrectStart(match) ==
  parse_srt_timestamp(match.end)[1]
    - estimate_audio_length(CountWords(match.text))

\* Mutant: the rewrite keeps the first block only.
UpdatedContentFirstOnly(srt_content, short) ==
  LET first_segment == SrtBlocks(srt_content)[1]
      match == Match(first_segment)
  IN ReplaceFirst(first_segment, match.start,
                  format_srt_timestamp(CorrectStart(match), short))
       \o NL \o NL

\* updated_srt_content of fix_first_segment_start_time.
UpdatedContent(srt_content, short) ==
  LET srt_blocks == SrtBlocks(srt_content)
      first_segment == srt_blocks[1]
      match == Match(first_segment)
      corrected_start_time == format_srt_timestamp(CorrectStart(match), short)
      updated_first_segment ==
        ReplaceFirst(first_segment, match.start, corrected_start_time)
  IN updated_first_segment \o NL \o NL \o Join(Tail(srt_blocks), NL \o NL)

\* Whether fix_first_segment_start_time gets as far as writing.
Rewrites(f) ==
  /\ f # Absent
  /\ LET match == Match(SrtBlocks(f[1])[1])
     IN match.ok /\ parse_srt_timestamp(match.end) # <<>>

\* Mutant: a file whose first block does not match is emptied.
FixEmptiesUnparsed(f, fault, short, cut) ==
  IF f = Absent \/ fault = "read" THEN [file |-> f, log |-> {"FIX_EXC"}]
  ELSE IF ~Match(SrtBlocks(f[1])[1]).ok
  THEN [file |-> File(<<>>), log |-> {"FIX_PARSE"}]
  ELSE IF parse_srt_timestamp(Match(SrtBlocks(f[1])[1]).end) = <<>>
          \/ fault = "wopen"
  THEN [file |-> f, log |-> {"FIX_EXC"}]
  ELSE IF fault = "torn"
  THEN [file |-> File(SubSeq(UpdatedContent(f[1], short), 1, cut)),
        log |-> {"FIX_EXC"}]
  ELSE [file |-> File(UpdatedContent(f[1], short)), log |-> {"FIX_OK"}]

\* fix_first_segment_start_time(srt_file_path) on a path holding f. Reading
\* raises when the path holds nothing or on an I/O error ("read"); "wopen"
\* and "torn" are the faults of the write, as in save_srt_file. Every
\* exception is logged, not raised.
fix_first_segment_start_time(f, fault, short, cut) ==
  IF f = Absent \/ fault = "read" THEN [file |-> f, log |-> {"FIX_EXC"}]
  ELSE
    LET srt_blocks == SrtBlocks(f[1])
        match == Match(srt_blocks[1])
        updated_srt_content == UpdatedContent(f[1], short)
    IN IF Len(srt_blocks) = 0 THEN [file |-> f, log |-> {"FIX_NO_BLOCKS"}]
       ELSE IF ~match.ok THEN [file |-> f, log |-> {"FIX_PARSE"}]
       ELSE IF parse_srt_timestamp(match.end) = <<>>
       THEN [file |-> f, log |-> {"FIX_EXC"}]
       ELSE
         CASE fault = "wopen" -> [file |-> f, log |-> {"FIX_EXC"}]
           [] fault = "torn"  ->
                [file |-> File(SubSeq(updated_srt_content, 1, cut)),
                 log |-> {"FIX_EXC"}]
           [] OTHER           ->
                [file |-> File(updated_srt_content), log |-> {"FIX_OK"}]

\* The outcomes of the float product in format_srt_timestamp, and the
\* places where the write may stop, for a call on a path holding f.
FixShorts(f) ==
  IF Rewrites(f) THEN FloatShort(CorrectStart(Match(SrtBlocks(f[1])[1])))
  ELSE {0}

FixCuts(f, short) ==
  IF Rewrites(f) THEN Cuts(UpdatedContent(f[1], short)) ELSE {0}

\* ---- SrtSpec: one response post-processed on one output path
\* <audio>_en.srt of two audio files of one output directory.
Paths == {"a.wav_en.srt", "b.wav_en.srt"}

\* What an earlier run of the program left on a path: convert_to_srt of a
\* response, saved and corrected.
EarlierRun(segments) ==
  UpdatedContent(convert_to_srt(segments, [t \in SegTimes |-> 0]), 0)

\* What the output path may hold before the job: nothing; the file of an
\* earlier run, with one block or two; the file of an earlier run whose
\* first block ended before its estimated duration; the first half of a
\* file whose write failed.
PriorFiles ==
  { Absent,
    File(EarlierRun(<< Seg(<<0>>, <<10000>>, TestSentence),
                       Seg(<<0>>, <<2000>>, HelloThere) >>)),
    File(EarlierRun(<< Seg(<<0>>, <<600>>, <<"h", "i">>) >>)),
    File(SubSeq(EarlierRun(<< Seg(<<0>>, <<2000>>, HelloThere) >>), 1, 9)) }

\* What the path of the other audio file may hold.
SiblingFiles ==
  { File(EarlierRun(<< Seg(<<0>>, <<2000>>, HelloThere) >>)) }

SrtInit ==
  /\ PipelineIdle
  /\ SanIdle
  /\ CodecIdle
  /\ DirIdle
  /\ upc = "ready"
  /\ upath \in Paths
  /\ usegs \in SegmentLists
  /\ ufile \in [Paths -> PriorFiles \cup SiblingFiles]
  /\ ufile[upath] \in PriorFiles
  /\ \A p \in Paths \ {upath} : ufile[p] \in SiblingFiles
  /\ uprior = ufile
  /\ usaved = <<>>
  /\ ulog = {}
  /\ ures = <<>>

\* The faults a call of save_srt_file may meet, with where the write stops.
SaveRuns(srt_content) ==
  {<<"none", 0>>, <<"wopen", 0>>}
  \cup {<<"torn", c>> : c \in Cuts(srt_content)}

\* The faults a call of fix_first_segment_start_time may meet, with the
\* outcome of the float product and where the write stops.
FixRuns(f) ==
  {<<"none", s, 0>> : s \in FixShorts(f)}
  \cup {<<"read", 0, 0>>}
  \cup (IF Rewrites(f)
        THEN {<<"wopen", 0, 0>>}
             \cup UNION {{<<"torn", s, c>> : c \in FixCuts(f, s)} :
                           s \in FixShorts(f)}
        ELSE {})

\* transcribe_single_audio once the response is there and truthy:
\* convert_to_srt, save_srt_file and fix_first_segment_start_time on the
\* output path.
PostProcess ==
  /\ upc = "ready"
  /\ \E fl \in FloatOutcomes :
       LET srt_content_en == convert_to_srt(usegs, fl)
       IN \E sv \in SaveRuns(srt_content_en) :
            LET saved == save_srt_file(ufile[upath], srt_content_en,
                                       sv[1], sv[2])
            IN \E fx \in FixRuns(saved.file) :
                 LET fixed == fix_first_segment_start_time(
                                saved.file, fx[1], fx[2], fx[3])
                 IN /\ ufile' = [ufile EXCEPT ![upath] = fixed.file]
                    /\ usaved' = saved.file
                    /\ ulog' = ConvertLog(usegs) \cup saved.log \cup fixed.log
                    /\ ures' = [content |-> srt_content_en, fl |-> fl,
                                save |-> sv[1], fix |-> fx[1],
                                short |-> fx[2], raised |-> FALSE]
  /\ upc' = "done"
  /\ UNCHANGED <<upath, usegs, uprior>>
  /\ UNCHANGED <<pvars, svars, cvars, dvars>>

SrtNext == PostProcess

SrtSpec == SrtInit /\ [][SrtNext]_vars

\* =========================================================================
\* Properties of the post-processing and of the timestamp functions
\* =========================================================================
\* ---- reading an SRT text, as the properties do
\* The blocks of a text: what blank lines separate.
BlocksOf(content) ==
  IF Strip(content) = <<>> THEN <<>> ELSE Split(Strip(content), NL \o NL)

\* The fields of a block: the index line, the two sides of the arrow on the
\* second line, and the lines after it.
Fields(block) ==
  LET ls == Split(block, NL)
      range == IF Len(ls) >= 2 THEN Split(ls[2], Arrow) ELSE <<>>
  IN [ok     |-> Len(ls) >= 3 /\ Len(range) = 2,
      number |-> ls[1],
      start  |-> IF Len(range) >= 1 THEN range[1] ELSE <<>>,
      end    |-> IF Len(range) = 2 THEN range[2] ELSE <<>>,
      text   |-> Join(SubSeq(ls, 3, Len(ls)), NL)]

\* A segment convert_to_srt is to skip: no start, no end, or a text that is
\* empty once trimmed.
Skipped(segment) ==
  \/ segment.start = <<>>
  \/ segment.end = <<>>
  \/ Strip(segment.text) = <<>>

\* The segments convert_to_srt is to emit, in input order.
Kept == SelectSeq(usegs, LAMBDA segment : ~Skipped(segment))

Done == upc = "done"

\* C11: the text convert_to_srt returns is, for the segments that have a
\* start, an end and a non-empty trimmed text, taken in input order, one
\* block of four lines each (index, time range, trimmed text, blank), the
\* k-th of them numbered k; it is empty when there is no such segment.
C11_ConvertEmitsKept ==
  Done =>
    LET lines == IF ures.content = <<>> THEN <<>>
                 ELSE Split(ures.content, NL)
    IN /\ Len(lines) = 4 * Len(Kept)
       /\ \A k \in 1..Len(Kept) :
            /\ lines[4 * k - 3] = Decimal(k)
            /\ lines[4 * k - 2] =
                 format_time(Kept[k].start[1], ures.fl[Kept[k].start[1]])
                   \o Arrow
                   \o format_time(Kept[k].end[1], ures.fl[Kept[k].end[1]])
            /\ lines[4 * k - 1] = Strip(Kept[k].text)
            /\ lines[4 * k] = <<>>

\* A skipped segment stands before an emitted one, whose start is 0.
C11_Witness ==
  /\ Done
  /\ Len(usegs) = 2
  /\ Skipped(usegs[1])
  /\ ~Skipped(usegs[2])
  /\ usegs[2].start = <<0>>
  /\ ures.content # <<>>

NothingToEmit == \A k \in 1..Len(usegs) : Skipped(usegs[k])

\* C12: when the response has no segment, or only segments to skip,
\* convert_to_srt returns the empty string and warns, the job raises
\* nothing, the file save_srt_file wrote (when it could write) is empty and
\* is the same after fix_first_segment_start_time, which logs that it could
\* not parse it, and the path of the other audio file holds what it held.
C12_NothingEmitted ==
  (Done /\ NothingToEmit) =>
    /\ ures.content = <<>>
    /\ ures.raised = FALSE
    /\ (Len(usegs) = 0 => "NO_SEGMENTS" \in ulog)
    /\ (Len(usegs) > 0 => "SKIPPED" \in ulog)
    /\ (ures.save = "none" =>
          /\ usaved = File(<<>>)
          /\ ufile[upath] = File(<<>>)
          /\ ulog \cap {"FIX_PARSE", "FIX_EXC"} # {}
          /\ "FIX_OK" \notin ulog)
    /\ \A p \in Paths \ {upath} : ufile[p] = uprior[p]

\* A response whose segments are all skipped was saved as an empty file that
\* the corrector could not parse.
C12_Witness ==
  /\ Done
  /\ Len(usegs) > 0
  /\ NothingToEmit
  /\ ures.save = "none"
  /\ uprior[upath] # Absent
  /\ "FIX_PARSE" \in ulog
  /\ ufile[upath] = File(<<>>)

\* HH:MM:SS,mmm of a time of t >= 0 milliseconds: hours, minutes and seconds
\* truncated, milliseconds as three zero-padded digits.
Canonical(t) ==
  Padded(t \div 3600000, 2) \o <<":">>
    \o Padded((t % 3600000) \div 60000, 2) \o <<":">>
    \o Padded((t % 60000) \div 1000, 2) \o <<",">>
    \o Padded(t % 1000, 3)

\* Segments [(0.0, 2.0, "Hello there"), (2.0, 4.5, "")] and the one block
\* they are to serialize to.
ScenarioA ==
  << Seg(<<0>>, <<2000>>, HelloThere), Seg(<<2000>>, <<4500>>, <<>>) >>

ScenarioAText ==
  Join(<< <<"1">>, Canonical(0) \o Arrow \o Canonical(2000), HelloThere,
          <<>> >>, NL)

\* C13: format_time renders every time t >= 0 as HH:MM:SS,mmm with a
\* milliseconds field of exactly three digits, and the two segments of
\* scenario A serialize to the block `1`, `00:00:00,000 --> 00:00:02,000`,
\* `Hello there`.
C13_FormatTimeThreeDigits ==
  /\ (cop = "format_time" /\ ct >= 0) => cout = Canonical(ct)
  /\ cop = "format_time" =>
       \A fl \in FloatOutcomes : convert_to_srt(ScenarioA, fl) = ScenarioAText

\* C14: for every whole number t of milliseconds in [0, 359999.999] s,
\* parse_srt_timestamp(format_time(t)) succeeds and is t.
C14_RoundTrip ==
  (cop = "format_time" /\ ct >= 0 /\ ct <= 359999999) => cback = <<ct>>

\* C15: for a negative input each encoder returns 00:00:00,000.
C15_NegativeClamped ==
  (cop \in {"format_time", "format_srt_timestamp"} /\ ct < 0) =>
    cout = Canonical(0)

\* ---- fix_first_segment_start_time, by the file before and after the call
\* The corrector ran to the end of its rewrite.
Fixed == Done /\ "FIX_OK" \in ulog

\* The first block of the file the corrector was called on, and of the file
\* it left.
FirstBefore == Fields(BlocksOf(usaved[1])[1])
FirstAfter == Fields(BlocksOf(ufile[upath][1])[1])

\* decode(end) minus w / 50 minutes for the first block the corrector was
\* called on, in milliseconds (a minute is 60000 ms: 1200 ms a word).
Intended ==
  parse_srt_timestamp(FirstBefore.end)[1] - 1200 * CountWords(FirstBefore.text)

\* C16: a start the corrector writes is a timestamp of a non-negative time,
\* and it is 00:00:00,000 when decode(end) minus the estimated duration is
\* below zero.
C16_StartNeverNegative ==
  Fixed =>
    /\ parse_srt_timestamp(FirstAfter.start) # <<>>
    /\ (Intended < 0 => FirstAfter.start = Canonical(0))

\* C17: a start the corrector writes, when it is a timestamp at all, is not
\* later than the end of the same block.
C17_StartNotAfterEnd ==
  Fixed =>
    (parse_srt_timestamp(FirstAfter.start) # <<>> =>
       /\ parse_srt_timestamp(FirstAfter.end) # <<>>
       /\ parse_srt_timestamp(FirstAfter.start)[1]
            <= parse_srt_timestamp(FirstAfter.end)[1])

\* The corrector moved the start of a block of this job to a time before
\* its end.
C17_Witness ==
  /\ Fixed
  /\ ures.save = "none"
  /\ parse_srt_timestamp(FirstAfter.start) # <<>>
  /\ parse_srt_timestamp(FirstAfter.start)[1] > 0
  /\ parse_srt_timestamp(FirstAfter.start)[1]
       < parse_srt_timestamp(FirstAfter.end)[1]

\* C18: for a first block of w words and end e the corrector writes the
\* start HH:MM:SS,mmm of e - w / 50 minutes whenever that is not negative;
\* five words and an end of 00:00:10,000 give 00:00:04,000.
C18_StartIsEndMinusEstimate ==
  Fixed => (Intended >= 0 => FirstAfter.start = Canonical(Intended))

\* The blocks after the first, the fields of the first other than its start.
Rest(content) == Tail(BlocksOf(content))

\* C19: after the corrector's rewrite the file has the blocks it had, in the
\* same order, the first with the same index, end and text, the others with
\* all their fields the same; when the corrector does not get to write, the
\* file is what it was.
C19_OnlyFirstStartChanges ==
  /\ Fixed =>
       /\ Len(BlocksOf(ufile[upath][1])) = Len(BlocksOf(usaved[1]))
       /\ Rest(ufile[upath][1]) = Rest(usaved[1])
       /\ FirstAfter.ok
       /\ FirstAfter.number = FirstBefore.number
       /\ FirstAfter.end = FirstBefore.end
       /\ FirstAfter.text = FirstBefore.text
  /\ (Done /\ ulog \cap {"FIX_OK", "FIX_EXC"} = {}) => ufile[upath] = usaved

\* The corrector changed the start of the first of two blocks.
C19_Witness ==
  /\ Fixed
  /\ Len(BlocksOf(usaved[1])) = 2
  /\ FirstAfter.start # FirstBefore.start

\* The first block of a text is an index line of digits, a line of two
\* times (digits, colons, commas) around an arrow, and a text.
Parseable(content) ==
  /\ BlocksOf(content) # <<>>
  /\ LET b == Fields(BlocksOf(content)[1])
     IN /\ b.ok
        /\ b.number # <<>> /\ AllDigits(b.number)
        /\ b.start # <<>> /\ \A k \in 1..Len(b.start) : b.start[k] \in TimeChars
        /\ b.end # <<>> /\ \A k \in 1..Len(b.end) : b.end[k] \in TimeChars
        /\ b.text # <<>>

\* C20: called on a file without a parseable first block, the corrector logs
\* it, leaves the file as it was and raises nothing.
C20_UnparseableLeftAlone ==
  (Done /\ usaved # Absent /\ ~Parseable(usaved[1])) =>
    /\ ulog \cap {"FIX_PARSE", "FIX_EXC", "FIX_NO_BLOCKS"} # {}
    /\ "FIX_OK" \notin ulog
    /\ ufile[upath] = usaved
    /\ ures.raised = FALSE

\* The corrector was called on a file that is not empty and whose first
\* block does not parse, and said so.
C20_Witness ==
  /\ Done
  /\ usaved # Absent
  /\ usaved[1] # <<>>
  /\ ~Parseable(usaved[1])
  /\ ures.fix = "none"
  /\ "FIX_PARSE" \in ulog

\* =========================================================================
\* Cleanup of a video output directory (cleaning_and_sanitization.py)
\* =========================================================================
\* A file name, split at the last dot as os.path.splitext splits it.
Name(stem, ext) == [stem |-> stem, ext |-> ext]

\* Names the directory of video "v" can hold: the copied video, the detached
\* audio, what Demucs leaves behind (a directory), the transcription of the
\* audio, the detached subtitles and an SRT of some earlier tool.
DirNames ==
  { Name("v", ".mp4"),
    Name("v_audio", ".wav"),
    Name("htdemucs", ""),
    Name("v_audio.wav_en", ".srt"),
    Name("v_subtitles", ".srt"),
    Name("old", ".SRT") }

\* new_filename = f"{video_dir_name}_subtitles.srt"
new_filename == Name("v_subtitles", ".srt")

\* filename.lower(), on the extensions of the model.
LowerExt(e) == IF e = ".SRT" THEN ".srt" ELSE e

\* filename.lower().endswith('.srt')
IsSrt(filename) == LowerExt(filename.ext) = ".srt"

\* os.path.exists / os.path.isfile on a name of the directory d. A name is
\* "none" (absent), "dir" (a directory), or a file that is "raw" (as
\* written), "clean" (saved by sanitize_srt_file) or "torn" (truncated by a
\* failed save).
Exists(d, filename) == d[filename] # "none"
IsFile(d, filename) == d[filename] \notin {"none", "dir"}

Present(d) == {n \in DirNames : Exists(d, n)}

\* Directories cleanup_output_dir can be given.
DirContents ==
  { d \in [DirNames -> {"none", "dir", "raw"}] :
      /\ \A n \in DirNames : (d[n] = "dir") => (n.ext = "")
      /\ \A n \in DirNames : (n.ext = "") => (d[n] # "raw")
      /\ Cardinality(Present(d)) <= MaxEntries }

\* os.listdir returns the names in arbitrary order.
Listings(d) ==
  LET n == Cardinality(Present(d))
  IN { l \in [1..n -> Present(d)] :
         \A a, b \in 1..n : l[a] = l[b] => a = b }

\* What sanitize_srt_file leaves at the path: the cleaned file; the file as
\* it was, when a step before the save raised; a truncated file, when the
\* save raised. It logs its own failures and raises nothing.
SanOutcomes == {"clean", "raw", "torn"}

DirInit ==
  /\ PipelineIdle
  /\ SanIdle
  /\ UtilIdle
  /\ dpc = "ready"
  /\ dinit \in DirContents
  /\ dfiles = dinit
  /\ listing = <<>>
  /\ dk = 0
  /\ subtitle_renamed = FALSE
  /\ sanitized = <<>>
  /\ dfailed = FALSE

\* cleanup_output_dir up to the loop: subtitle_renamed = False and
\* os.listdir(video_output_dir).
ListDir ==
  /\ dpc = "ready"
  /\ dpc' = "loop"
  /\ listing' \in Listings(dfiles)
  /\ dk' = 1
  /\ subtitle_renamed' = FALSE
  /\ UNCHANGED <<dinit, dfiles, sanitized, dfailed>>
  /\ UNCHANGED <<pvars, svars, cvars, uvars>>

\* os.remove(file_path) under `except Exception`: the file is gone, or the
\* call raised and the failure is logged.
Remove(filename, raises) ==
  /\ dfiles' = IF raises THEN dfiles ELSE [dfiles EXCEPT ![filename] = "none"]
  /\ dfailed' = (dfailed \/ raises)
  /\ UNCHANGED <<subtitle_renamed, sanitized>>

\* os.rename(file_path, new_file_path), subtitle_renamed = True and
\* sanitize_srt_file(new_file_path, ...) under `except Exception`.
RenameAndSanitize(filename, raises, san) ==
  IF raises
  THEN /\ dfailed' = TRUE
       /\ UNCHANGED <<dfiles, subtitle_renamed, sanitized>>
  ELSE /\ dfiles' = [dfiles EXCEPT ![filename] = "none", ![new_filename] = san]
       /\ subtitle_renamed' = TRUE
       /\ sanitized' = Append(sanitized, new_filename)
       /\ dfailed' = (dfailed \/ san # "clean")

\* One turn of `for filename in os.listdir(video_output_dir)`.
CleanupEntry ==
  /\ dpc = "loop"
  /\ dk <= Len(listing)
  /\ dk' = dk + 1
  /\ LET filename == listing[dk]
     IN \E raises \in BOOLEAN :
          \E san \in SanOutcomes :
            IF ~IsFile(dfiles, filename)
            THEN UNCHANGED <<dfiles, subtitle_renamed, sanitized, dfailed>>
            ELSE IF ~IsSrt(filename)
            THEN Remove(filename, raises)
            ELSE IF subtitle_renamed
            THEN Remove(filename, raises)
            ELSE IF Exists(dfiles, new_filename)
            THEN \* "already exists. Skipping rename."
                 UNCHANGED <<dfiles, subtitle_renamed, sanitized, dfailed>>
            ELSE RenameAndSanitize(filename, raises, san)
  /\ UNCHANGED <<dpc, dinit, listing>>
  /\ UNCHANGED <<pvars, svars, cvars, uvars>>

\* The list is exhausted and cleanup_output_dir returns.
CleanupReturn ==
  /\ dpc = "loop"
  /\ dk > Len(listing)
  /\ dpc' = "done"
  /\ UNCHANGED <<dinit, dfiles, listing, dk, subtitle_renamed, sanitized,
                 dfailed>>
  /\ UNCHANGED <<pvars, svars, cvars, uvars>>

DirNext == ListDir \/ CleanupEntry \/ CleanupReturn

DirSpec == DirInit /\ [][DirNext]_vars

\* ---- properties of the cleanup
SrtFiles(d) == {n \in DirNames : IsFile(d, n) /\ IsSrt(n)}

OtherFiles(d) == {n \in DirNames : IsFile(d, n) /\ ~IsSrt(n)}

\* C25 (as claimed): when cleanup_output_dir has returned, no filesystem
\* call has failed and the directory held at least one .srt file at the
\* start, the directory holds no file that is not an .srt, its only .srt
\* file is <video_dir>_subtitles.srt, and sanitize_srt_file was called once,
\* on that file.
C25_OneSanitizedSubtitle ==
  (dpc = "done" /\ ~dfailed /\ SrtFiles(dinit) # {}) =>
    /\ OtherFiles(dfiles) = {}
    /\ SrtFiles(dfiles) = {new_filename}
    /\ sanitized = <<new_filename>>

\* C26 (as claimed): for a time of whole milliseconds from 0 to below 24
\* hours, the string format_time returns is the string format_srt_timestamp
\* returns for the same time.
C26_EncodersAgree ==
  (cop = "format_time" /\ ct >= 0 /\ ct < 24 * 3600000) =>
    \E short \in FloatShort(ct) : cout = format_srt_timestamp(ct, short)

====
